---- MODULE Spec2Model ----
(***************************************************************************)
(* Model of the track playback engine of derive (GpxMap.animateTracks,     *)
(* GpxMap.stopAnimation and the handlers around them in src/src/map.js),   *)
(* of the binary search of ui.js (search) and of the track extraction      *)
(* (extractTracks and getSport in src/src/map.js).                         *)
(*                                                                         *)
(* JavaScript values are encoded so that TLC can compare them:             *)
(*   - an optional value (a point's timestamp, track.marker, the closure's *)
(*     start and previousTimeStamp) is <<>> when undefined and <<v>> when  *)
(*     it holds v;                                                         *)
(*   - a Number that may be NaN or -Infinity is a record [k, v] with       *)
(*     k \in {"num", "nan", "-inf"}.                                       *)
(***************************************************************************)
EXTENDS Integers, Sequences, FiniteSets, TLC

\* ------------------------------------------------------------------ bounds
MaxTracks == 2      \* tracks added to the map
MaxLen == 2         \* points of one track
MaxTs == 3          \* largest point timestamp
MaxImages == 1      \* image markers added to the map
MaxRuns == 2        \* play requests
MaxFairRuns == 1    \* play requests in the specification with fairness
MaxDt == 2          \* largest advance of the host clock between two frames
MaxOptionUpdates == 1   \* times the settings dialog is applied
MaxFilterChanges == 1   \* times the filter dialog is applied
MaxElapsed == 3     \* a run that cannot end (rate below 1) is followed while
                    \* timestamp - start <= MaxElapsed
MaxSearchLen == 3   \* length of an array handed to search
MaxKey == 3         \* largest element of such an array
MaxPts == 2         \* point elements of one file
MaxSegs == 2        \* segments of one GPX track
MaxItems == 2       \* items of one drop
MaxEntries == 2     \* entries of a dropped directory or archive
MaxFiles == 3       \* files of one drop, whatever their nesting

\* ------------------------------------------------------- program constants
DefaultPlaybackRate == 300
DefaultMinDate == -1

\* ------------------------------------------------------------ JS numbers
Undefined == <<>>

Num(n) == [k |-> "num", v |-> n]
NaN == [k |-> "nan", v |-> 0]
NegInfinity == [k |-> "-inf", v |-> 0]

\* unary plus / numeric coercion of an optional timestamp: +undefined is NaN
ToNumber(t) == IF t = Undefined THEN NaN ELSE Num(t[1])

\* a - b on optional timestamps
Minus(a, b) == IF a = Undefined \/ b = Undefined THEN NaN ELSE Num(a[1] - b[1])

\* x + y on numbers (x is always finite here)
Plus(x, y) == IF x.k = "num" /\ y.k = "num" THEN Num(x.v + y.v) ELSE NaN

\* x < y on numbers: every comparison with NaN is false
LessThan(x, y) ==
    /\ x.k # "nan" /\ y.k # "nan"
    /\ \/ x.k = "-inf" /\ y.k = "num"
       \/ x.k = "num" /\ y.k = "num" /\ x.v < y.v

\* pt.timestamp > q, for an optional timestamp and a number
TimestampAfter(t, q) == t # Undefined /\ LessThan(q, Num(t[1]))

RECURSIVE MaxOf(_)
MaxOf(S) ==
    IF Cardinality(S) = 1 THEN CHOOSE x \in S : TRUE
    ELSE LET x == CHOOSE y \in S : TRUE
             m == MaxOf(S \ {x})
         IN IF x > m THEN x ELSE m

\* Math.max(...values): -Infinity for no argument, NaN if any argument is NaN
MathMax(values) ==
    IF values = {} THEN NegInfinity
    ELSE IF \E x \in values : x.k = "nan" THEN NaN
    ELSE Num(MaxOf({x.v : x \in values}))

\* ------------------------------------------------------------- variables
VARIABLES
    tracks,                 \* this.tracks
    imageMarkers,           \* this.imageMarkers.length
    options,                \* this.options.animationOptions
    filters,                \* this.filters
    btn,                    \* state of the animate button: "default" | "running"
    animateEnabled,         \* the animate button is enabled
    callbacks,              \* pending animation frame requests: run id -> closure
    trackAnimationRequest,  \* this.trackAnimationRequest
    clock,                  \* host time of the last frame, counted from the
                            \* latest play request (step reads only differences)
    runCount,               \* number of play requests so far
    optionUpdates,          \* number of updateOptions calls so far
    filterChanges,          \* number of applyFilters calls so far
    ev,                     \* the last operation and what it computed
    \* search(array, target, comparator)
    array,                  \* the argument array
    target,                 \* the argument target
    low,                    \* local low (an index from 0)
    high,                   \* local high (an index from 0)
    result,                 \* the returned value, once search has returned
    searchPc,               \* "idle" | "loop" | "done"
    \* handleTrackFile(file, contents) of handleFileSelect
    file,                   \* the dropped file: its name and decoded contents
    parsed,                 \* what extractTracks(file, contents) settled to
    added,                  \* the track handed to map.addTrack, if any
    parsePc,                \* "idle" | "extracted" | "handled"
    \* handleFileSelect(map, evt) and the modal of buildUploadModal
    items,                  \* evt.dataTransfer.items
    opened,                 \* the directories read and archives unzipped
    handled,                \* per item, the files that handleFile or
                            \* handleZipEntry has finished with
    settled,                \* the items whose handleEntry promise is settled
    numFiles,               \* numFiles of the modal
    numLoaded,              \* numLoaded of the modal
    failures,               \* failures of the modal
    mapCalls,               \* the calls made on the map, in order
    finished                \* what modal.finished() saw, once it is called

playbackVars == <<tracks, imageMarkers, options, filters, btn, animateEnabled,
                  callbacks, trackAnimationRequest, clock, runCount,
                  optionUpdates, filterChanges, ev>>

searchVars == <<array, target, low, high, result, searchPc>>

parseVars == <<file, parsed, added, parsePc>>

uploadVars == <<items, opened, handled, settled, numFiles, numLoaded,
                failures, mapCalls, finished>>

\* the state the playback engine never touches
otherVars == <<searchVars, parseVars, uploadVars>>

vars == <<playbackVars, otherVars>>

\* ------------------------------------------------------------------ inputs
Timestamps == {Undefined} \cup {<<t>> : t \in 0..MaxTs}

\* a recording carries no times at all (a route, a GPX without <time>), or
\* every point has one and they are chronological
Chronological(ts) ==
    \/ \A i \in 1..Len(ts) : ts[i] = Undefined
    \/ /\ \A i \in 1..Len(ts) : ts[i] # Undefined
       /\ \A i \in 1..Len(ts) - 1 : ts[i][1] <= ts[i + 1][1]

TimestampSeqs ==
    {ts \in UNION {[1..n -> Timestamps] : n \in 1..MaxLen} : Chronological(ts)}

\* the points of an extracted track: distinct positions, in file order
PointsOf(ts) == [i \in 1..Len(ts) |-> [lat |-> i, lng |-> 0, timestamp |-> ts[i]]]

\* what the settings dialog can hand to updateOptions: a playback rate (any
\* number, negative included) and one of the three animation modes
OptionInputs ==
    {[playbackRate |-> 2, mode |-> "simultaneous"],
     [playbackRate |-> -1, mode |-> "simultaneous"],
     [playbackRate |-> 1, mode |-> "synchronized"],
     [playbackRate |-> 1, mode |-> "latest"]}

\* what the filter dialog hands over: a start date after every track, which
\* hides all tracks that carry a timestamp
FilterInputs == {[minDate |-> <<MaxTs + 1>>, maxDate |-> Undefined]}

\* ev after an operation other than a frame callback
NoEvent == [op |-> "other", run |-> 0, elapsed |-> 0, stepTime |-> 0,
            resolved |-> FALSE, completed |-> FALSE, minBound |-> 0,
            maxBound |-> NegInfinity, visibleTracks |-> {}, mode |-> "undefined",
            queries |-> <<>>, hadMarker |-> FALSE]

\* -------------------------------------------------------------- helpers
LatLng(pt) == <<pt.lat, pt.lng>>

LatLngs(points) == [i \in 1..Len(points) |-> LatLng(points[i])]

\* the timestamp an extractor leaves on the track: the last one it saw
RECURSIVE TrackTimestamp(_)
TrackTimestamp(points) ==
    IF points = <<>> THEN Undefined
    ELSE IF points[Len(points)].timestamp # Undefined
         THEN points[Len(points)].timestamp
         ELSE TrackTimestamp(SubSeq(points, 1, Len(points) - 1))

VisibleTracks == {i \in 1..Len(tracks) : tracks[i].visible}

\* ------------------------------------------------------------------- Init
\* no call of search is in progress
SearchIdle ==
    /\ array = <<>>
    /\ target = 0
    /\ low = 0
    /\ high = -1
    /\ result = Undefined
    /\ searchPc = "idle"

\* no file has been dropped
ParseIdle ==
    /\ file = Undefined
    /\ parsed = Undefined
    /\ added = Undefined
    /\ parsePc = "idle"

\* nothing has been dropped
UploadIdle ==
    /\ items = <<>>
    /\ opened = {}
    /\ handled = <<>>
    /\ settled = {}
    /\ numFiles = 0
    /\ numLoaded = 0
    /\ failures = <<>>
    /\ mapCalls = <<>>
    /\ finished = Undefined

Init ==
    /\ SearchIdle
    /\ ParseIdle
    /\ UploadIdle
    /\ tracks = <<>>
    /\ imageMarkers = 0
    /\ options = [playbackRate |-> DefaultPlaybackRate, mode |-> "undefined"]
    /\ filters = [minDate |-> Undefined, maxDate |-> Undefined]
    /\ btn = "default"
    /\ animateEnabled = FALSE
    /\ callbacks = <<>>
    /\ trackAnimationRequest = Undefined
    /\ clock = 0
    /\ runCount = 0
    /\ optionUpdates = 0
    /\ filterChanges = 0
    /\ ev = NoEvent

\* ---------------------------------------------------------------- addTrack
AddTrack ==
    \E ts \in TimestampSeqs :
        LET points == PointsOf(ts)
            track == [points |-> points, timestamp |-> TrackTimestamp(points),
                      line |-> LatLngs(points), visible |-> TRUE,
                      marker |-> Undefined]
        IN /\ Len(tracks) < MaxTracks
           /\ tracks' = Append(tracks, track)
           /\ animateEnabled' = TRUE
           /\ ev' = NoEvent
           /\ UNCHANGED <<otherVars, imageMarkers, options, filters, btn, callbacks,
                          trackAnimationRequest, clock, runCount,
                          optionUpdates, filterChanges>>

AddImage ==
    /\ imageMarkers < MaxImages
    /\ imageMarkers' = imageMarkers + 1
    /\ ev' = NoEvent
    /\ UNCHANGED <<otherVars, tracks, options, filters, btn, animateEnabled, callbacks,
                   trackAnimationRequest, clock, runCount, optionUpdates,
                   filterChanges>>

\* ------------------------------------------------- updateOptions (settings)
UpdateOptions ==
    \E opts \in OptionInputs :
        /\ optionUpdates < MaxOptionUpdates
        /\ optionUpdates' = optionUpdates + 1
        /\ options' = opts
        /\ ev' = NoEvent
        /\ UNCHANGED <<otherVars, tracks, imageMarkers, filters, btn, animateEnabled,
                       callbacks, trackAnimationRequest, clock, runCount,
                       filterChanges>>

\* ----------------------------------------------------------- applyFilters
HideTrack(track, f) ==
    LET min == IF f.minDate = Undefined THEN DefaultMinDate ELSE f.minDate[1]
        max == IF f.maxDate = Undefined THEN MaxTs + 2 ELSE f.maxDate[1]
    IN \/ track.timestamp # Undefined /\ min > track.timestamp[1]
       \/ track.timestamp # Undefined /\ max < track.timestamp[1]

ApplyFilters ==
    \E f \in FilterInputs :
        /\ filterChanges < MaxFilterChanges
        /\ filterChanges' = filterChanges + 1
        /\ filters' = f
        /\ tracks' = [i \in 1..Len(tracks) |->
                        [tracks[i] EXCEPT !.visible = ~HideTrack(tracks[i], f)]]
        /\ ev' = NoEvent
        /\ UNCHANGED <<otherVars, imageMarkers, options, btn, animateEnabled, callbacks,
                       trackAnimationRequest, clock, runCount, optionUpdates>>

\* ---------------------------------------------------------- animateTracks
\* faulty variant: the last timestamp instead of the track's own duration
Duration_LastTimestamp(track) ==
    ToNumber(track.points[Len(track.points)].timestamp)

\* t.points[t.points.length - 1].timestamp - t.points[0].timestamp
Duration(track) ==
    Minus(track.points[Len(track.points)].timestamp, track.points[1].timestamp)

MaxBound(visible) == MathMax({Duration(tracks[i]) : i \in visible})

\* the closure animateTracks creates: the locals the step callback captures
NewClosure(visible) ==
    [visibleTracks |-> visible, minBound |-> 0, maxBound |-> MaxBound(visible),
     start |-> Undefined, previousTimeStamp |-> Undefined,
     mode |-> options.mode]

\* window.cancelAnimationFrame(handle)
Cancel(handle) ==
    IF handle = Undefined THEN callbacks
    ELSE [i \in DOMAIN callbacks \ {handle[1]} |-> callbacks[i]]

\* faulty variant: a click reaches a handler whatever the button's state
ClickDispatches_AnyState(stateName) == animateEnabled

\* the easy-button dispatches a click to the handler of its current state
ClickDispatches(stateName) == animateEnabled /\ btn = stateName

\* onClick of the 'default' state: btn.state('running'); this.animateTracks(btn)
PlayWithin(maxRuns) ==
    LET id == runCount + 1
        visible == VisibleTracks
    IN /\ ClickDispatches("default")
       /\ runCount < maxRuns
       /\ runCount' = id
       /\ btn' = "running"
       /\ IF visible = {} /\ imageMarkers = 0
          THEN UNCHANGED <<callbacks, trackAnimationRequest>>
          ELSE /\ callbacks' = (id :> NewClosure(visible)) @@ callbacks
               /\ trackAnimationRequest' = <<id>>
       /\ ev' = [NoEvent EXCEPT !.op = "play", !.run = id]
       /\ clock' = 0
       /\ UNCHANGED <<otherVars, tracks, imageMarkers, options, filters, animateEnabled,
                      optionUpdates, filterChanges>>

Play == PlayWithin(MaxRuns)

\* track.points.find(pt => pt.timestamp > trackStepTime): index, 0 if none
FindPoint(points, trackStepTime) ==
    LET after == {i \in 1..Len(points) :
                    TimestampAfter(points[i].timestamp, trackStepTime)}
    IN IF after = {} THEN 0 ELSE CHOOSE i \in after : \A j \in after : i <= j

\* stepTime + +track.points[0].timestamp
TrackStepTime(track, stepTime) ==
    Plus(Num(stepTime), ToNumber(track.points[1].timestamp))

\* the body of the loop over visibleTracks in step
StepTrack(track, stepTime) ==
    LET point == FindPoint(track.points, TrackStepTime(track, stepTime))
    IN IF point # 0
       THEN IF track.marker # Undefined
            THEN [track EXCEPT !.marker = <<LatLng(track.points[point])>>,
                               !.line = Append(@, LatLng(track.points[point]))]
            ELSE [track EXCEPT !.marker = <<LatLng(track.points[point])>>,
                               !.line = <<>>]
       ELSE [track EXCEPT !.marker = Undefined]

\* faulty variant: the virtual time runs backwards
StepTime_Backwards(c, elapsed) == c.minBound - (elapsed * options.playbackRate)

\* minBound + (elapsed * this.options.animationOptions.playbackRate)
StepTime(c, elapsed) == c.minBound + (elapsed * options.playbackRate)

\* faulty variant: the comparison the other way round
RequestsNextFrame_Inverted(stepTime, maxBound) ==
    LessThan(maxBound, Num(stepTime))

\* if (stepTime < maxBound): another frame is requested
RequestsNextFrame(stepTime, maxBound) == LessThan(Num(stepTime), maxBound)

\* faulty variant: points are resolved on every frame
Resolves_Always(c, timestamp) == TRUE

\* if (previousTimeStamp !== timestamp): points are resolved on this frame
Resolves(c, timestamp) == c.previousTimeStamp # <<timestamp>>

\* the host delivers the frame of run id, dt after the previous frame
Frame(id, dt) ==
    /\ id \in DOMAIN callbacks
    /\ LET c == callbacks[id]
           timestamp == clock + dt
           start == IF c.start = Undefined THEN timestamp ELSE c.start[1]
           elapsed == timestamp - start
           stepTime == StepTime(c, elapsed)
           resolve == Resolves(c, timestamp)
           again == RequestsNextFrame(stepTime, c.maxBound)
       IN /\ options.playbackRate >= 1 \/ elapsed <= MaxElapsed
          /\ clock' = timestamp
          /\ tracks' = IF resolve
                       THEN [i \in 1..Len(tracks) |->
                               IF i \in c.visibleTracks
                               THEN StepTrack(tracks[i], stepTime)
                               ELSE tracks[i]]
                       ELSE tracks
          /\ IF again
             THEN /\ callbacks' = [callbacks EXCEPT ![id] =
                        [c EXCEPT !.start = <<start>>,
                                  !.previousTimeStamp = <<timestamp>>]]
                  /\ trackAnimationRequest' = <<id>>
                  /\ btn' = btn
             ELSE /\ callbacks' = [i \in DOMAIN callbacks \ {id} |-> callbacks[i]]
                  /\ btn' = "default"
                  /\ UNCHANGED trackAnimationRequest
          /\ ev' = [op |-> "tick", run |-> id, elapsed |-> elapsed,
                    stepTime |-> stepTime, resolved |-> resolve,
                    completed |-> ~again, minBound |-> c.minBound,
                    maxBound |-> c.maxBound, visibleTracks |-> c.visibleTracks,
                    mode |-> c.mode,
                    queries |-> [i \in c.visibleTracks |->
                                   TrackStepTime(tracks[i], stepTime)],
                    hadMarker |-> FALSE]
    /\ UNCHANGED <<otherVars, imageMarkers, options, filters, animateEnabled, runCount,
                   optionUpdates, filterChanges>>

\* a frame whose timestamp is later than the previous frame's
Tick == \E id \in DOMAIN callbacks, dt \in 1..MaxDt : Frame(id, dt)

\* a frame that carries the timestamp of the previous frame again
RepeatedTick == \E id \in DOMAIN callbacks : Frame(id, 0)

\* ---------------------------------------------------------- stopAnimation
\* faulty variant: the marker is removed but the line is not reset
RestoreTrack_MarkerOnly(track) == [track EXCEPT !.marker = Undefined]

\* the body of the forEach over this.tracks in stopAnimation
RestoreTrack(track) ==
    [track EXCEPT !.marker = Undefined, !.line = LatLngs(track.points)]

\* onClick of the 'running' state: btn.state('default'); this.stopAnimation(btn)
Stop ==
    /\ ClickDispatches("running")
    /\ btn' = "default"
    /\ callbacks' = Cancel(trackAnimationRequest)
    /\ tracks' = [i \in 1..Len(tracks) |-> RestoreTrack(tracks[i])]
    /\ ev' = [NoEvent EXCEPT
                 !.op = "stop",
                 \* the run whose pending frame the stop cancelled, if any
                 !.run = IF callbacks' # callbacks
                         THEN trackAnimationRequest[1] ELSE 0,
                 \* that run had been delivered a frame
                 !.resolved = /\ callbacks' # callbacks
                              /\ callbacks[trackAnimationRequest[1]].start
                                     # Undefined,
                 !.hadMarker = \E i \in 1..Len(tracks) :
                                  tracks[i].marker # Undefined]
    /\ UNCHANGED <<otherVars, imageMarkers, options, filters, animateEnabled,
                   trackAnimationRequest, clock, runCount, optionUpdates,
                   filterChanges>>

Next ==
    \/ AddTrack
    \/ AddImage
    \/ UpdateOptions
    \/ ApplyFilters
    \/ Play
    \/ Tick
    \/ RepeatedTick
    \/ Stop

Spec == Init /\ [][Next]_vars

\* the host's animation scheduler keeps delivering frames with advancing
\* timestamps to a pending callback
FairPlay == PlayWithin(MaxFairRuns)

FairNext ==
    \/ AddTrack
    \/ UpdateOptions
    \/ FairPlay
    \/ Tick
    \/ RepeatedTick
    \/ Stop

FairSpec == Init /\ [][FairNext]_vars /\ WF_vars(Tick)

\* ------------------------------------------------------------------ search
\* the elements of the arrays and the targets: some targets are below and
\* some above every element
Keys == 1..MaxKey

Targets == 0..MaxKey + 1

\* the arrays the search is specified for: ascending under the comparator
SortedArrays ==
    {a \in UNION {[1..n -> Keys] : n \in 0..MaxSearchLen} :
        \A i \in 1..Len(a) - 1 : a[i] <= a[i + 1]}

\* the comparator argument: a signed difference of the keys
Comparator(item, t) == item - t

\* array[i], for an index counted from 0
At(a, i) == a[i + 1]

\* faulty variant: the last element is left out of the search
InitialHigh_SkipsLast(a) == Len(a) - 2

\* let high = array.length - 1
InitialHigh(a) == Len(a) - 1

\* low + ((high - low) >>> 1), for high >= low
Mid(lo, hi) == lo + ((hi - lo) \div 2)

\* faulty variant: the negation instead of the bitwise complement
Complement_Negated(n) == -n

\* ~n on a 32-bit integer
Complement(n) == -n - 1

\* a call of search(array, target, comparator): the statements before the loop
SearchCall ==
    \E a \in SortedArrays, t \in Targets :
        /\ searchPc \in {"idle", "done"}
        /\ array' = a
        /\ target' = t
        /\ low' = 0
        /\ high' = InitialHigh(a)
        /\ result' = Undefined
        /\ searchPc' = "loop"
        /\ UNCHANGED <<playbackVars, parseVars, uploadVars>>

\* one iteration of while (low <= high)
SearchIterate ==
    /\ searchPc = "loop"
    /\ low <= high
    /\ LET mid == Mid(low, high)
           cmp == Comparator(At(array, mid), target)
       IN IF cmp < 0
          THEN /\ low' = mid + 1
               /\ UNCHANGED <<high, result, searchPc>>
          ELSE IF cmp > 0
          THEN /\ high' = mid - 1
               /\ UNCHANGED <<low, result, searchPc>>
          ELSE /\ result' = <<mid>>
               /\ searchPc' = "done"
               /\ UNCHANGED <<low, high>>
    /\ UNCHANGED <<array, target, playbackVars, parseVars, uploadVars>>

\* the loop ends without a match: return ~low
SearchMiss ==
    /\ searchPc = "loop"
    /\ low > high
    /\ result' = <<Complement(low)>>
    /\ searchPc' = "done"
    /\ UNCHANGED <<array, target, low, high, playbackVars, parseVars, uploadVars>>

SearchNext ==
    \/ SearchCall
    \/ SearchIterate
    \/ SearchMiss

SearchSpec == Init /\ [][SearchNext]_vars

\* ------------------------------------------------------------ JS strings
\* a string is known by its letters in lower case and by its letter case:
\* "lower" (biking), "capital" (Biking) or "upper" (BIKING); a value that is
\* not a string (a number the XML or JSON decoder produced) has type "number"
Text(word, case) == [type |-> "string", word |-> word, case |-> case]

NumberValue == [type |-> "number", word |-> "2023", case |-> "lower"]

\* s.toLowerCase()
ToLowerCase(s) == [s EXCEPT !.case = "lower"]

\* !v for an optional string: undefined, null and '' are falsy
Falsy(v) == v = Undefined \/ (v[1].type = "string" /\ v[1].word = "")

\* a name is known by what getSport looks at: the prefix it starts with and
\* the activity suffixes (-Hike.gpx, -Walk.gpx, -Run.gpx, -Ride.gpx) it
\* contains; a name that is not a string has neither
Name(starts, contains) ==
    [type |-> "string", starts |-> starts, contains |-> contains]

NumberName == [type |-> "number", starts |-> "", contains |-> {}]

Untitled == Name("", {})

\* parseFloat(s) on an attribute value
ParseFloat(s) ==
    CASE s = "1" -> Num(1)
      [] s = "2" -> Num(2)
      [] OTHER -> NaN

\* the outcome of a call: a returned value or a thrown error
Returned(v) == [threw |-> FALSE, value |-> v]

Thrown == [threw |-> TRUE, value |-> Undefined]

\* --------------------------------------------------------------- getSport
\* /-(Hike|Walk)\.gpx/.test(name) and the like: String(name) of a number or
\* an object contains none of the suffixes
Matches(name, suffixes) == name.contains \cap suffixes # {}

\* the branch of getSport for no declared sport; name.startsWith is not a
\* function unless name is a string
SportByName(name) ==
    IF Matches(name, {"Hike", "Walk"})
    THEN Returned(<<Text("walking", "lower")>>)
    ELSE IF name.type # "string" THEN Thrown
    ELSE IF name.starts = "Walking"
    THEN Returned(<<Text("walking", "lower")>>)
    ELSE IF Matches(name, {"Run"}) \/ name.starts = "Running"
    THEN Returned(<<Text("running", "lower")>>)
    ELSE IF Matches(name, {"Ride"}) \/ name.starts = "Cycling"
    THEN Returned(<<Text("cycling", "lower")>>)
    ELSE Returned(<<Text("other", "lower")>>)

\* the else branch of getSport: 'biking' becomes 'cycling'
DeclaredSport(sport) ==
    IF sport = Text("biking", "lower") THEN Text("cycling", "lower") ELSE sport

\* getSport(sport, name); sport?.toLowerCase is not a function unless sport
\* is a string, undefined or null
GetSport(sport, name) ==
    IF sport # Undefined /\ sport[1].type # "string" THEN Thrown
    ELSE LET lowered == IF sport = Undefined THEN Undefined
                        ELSE <<ToLowerCase(sport[1])>>
         IN IF Falsy(lowered) THEN SportByName(name)
            ELSE Returned(<<DeclaredSport(lowered[1])>>)

\* -------------------------------------------------------- extractGPXTracks
\* faulty variant: a track is kept whatever its points
KeepTrack_Always(points) == TRUE

\* if (points.length > 0), before every parsedTracks.push
KeepTrack(points) == Len(points) > 0

\* the loop over the trkpt of one trkseg
RECURSIVE ScanTrkpts(_, _, _)
ScanTrkpts(trackpoints, timestamp, points) ==
    IF trackpoints = <<>> THEN [timestamp |-> timestamp, points |-> points]
    ELSE LET trkpt == Head(trackpoints)
             ts == IF trkpt.time # Undefined THEN trkpt.time ELSE timestamp
         IN ScanTrkpts(Tail(trackpoints), ts,
                IF trkpt.lat # Undefined /\ trkpt.lon # Undefined
                THEN Append(points, [lat |-> ParseFloat(trkpt.lat[1]),
                                     lng |-> ParseFloat(trkpt.lon[1]),
                                     timestamp |-> ts])
                ELSE points)

\* the loop over the trkseg of one trk
RECURSIVE ScanSegments(_, _, _, _, _)
ScanSegments(trackSegments, timestamp, name, sport, parsedTracks) ==
    IF trackSegments = <<>> THEN parsedTracks
    ELSE LET seg == ScanTrkpts(Head(trackSegments), timestamp, <<>>)
         IN ScanSegments(Tail(trackSegments), seg.timestamp, name, sport,
                IF KeepTrack(seg.points)
                THEN Append(parsedTracks,
                            [timestamp |-> seg.timestamp, points |-> seg.points,
                             name |-> name, sport |-> sport])
                ELSE parsedTracks)

\* (Array.isArray(x.name) ? x.name[0] : x.name) ?? 'untitled'
NameOf(element) == IF element.name = Undefined THEN Untitled ELSE element.name[1]

\* the loop over gpx.trk
RECURSIVE ScanTrks(_, _)
ScanTrks(trks, parsedTracks) ==
    IF trks = <<>> THEN Returned(parsedTracks)
    ELSE LET trk == Head(trks)
             sport == GetSport(Undefined, NameOf(trk))
         IN IF sport.threw THEN Thrown
            ELSE ScanTrks(Tail(trks),
                     ScanSegments(trk.trkseg, Undefined, NameOf(trk),
                                  sport.value, parsedTracks))

\* the loop over the rtept of one rte; pt.$ of a point without attributes is
\* undefined and pt.$.lat throws
RECURSIVE ScanRtepts(_, _, _)
ScanRtepts(routepoints, timestamp, points) ==
    IF routepoints = <<>>
    THEN Returned([timestamp |-> timestamp, points |-> points])
    ELSE LET pt == Head(routepoints)
             ts == IF pt.time # Undefined THEN pt.time ELSE timestamp
         IN IF pt.lat = Undefined /\ pt.lon = Undefined THEN Thrown
            ELSE ScanRtepts(Tail(routepoints), ts,
                     Append(points,
                            [lat |-> IF pt.lat = Undefined THEN NaN
                                     ELSE ParseFloat(pt.lat[1]),
                             lng |-> IF pt.lon = Undefined THEN NaN
                                     ELSE ParseFloat(pt.lon[1]),
                             timestamp |-> Undefined]))

\* the loop over gpx.rte
RECURSIVE ScanRoutes(_, _)
ScanRoutes(routes, parsedTracks) ==
    IF routes = <<>> THEN Returned(parsedTracks)
    ELSE LET rte == Head(routes)
             r == ScanRtepts(rte.rtept, Undefined, <<>>)
         IN IF r.threw THEN Thrown
            ELSE ScanRoutes(Tail(routes),
                     IF KeepTrack(r.value.points)
                     THEN Append(parsedTracks,
                                 [timestamp |-> r.value.timestamp,
                                  points |-> r.value.points,
                                  name |-> NameOf(rte),
                                  sport |-> <<Text("other", "lower")>>])
                     ELSE parsedTracks)

\* extractGPXTracks(gpx)
ExtractGPXTracks(gpx) ==
    IF gpx.trk = <<>> /\ gpx.rte = <<>> THEN Thrown
    ELSE LET trks == ScanTrks(gpx.trk, <<>>)
         IN IF trks.threw THEN Thrown ELSE ScanRoutes(gpx.rte, trks.value)

\* -------------------------------------------------------- extractTCXTracks
\* parseFloat(v) of a value that may be missing: parseFloat(undefined) is NaN
ParseFloatOpt(v) == IF v = Undefined THEN NaN ELSE ParseFloat(v[1])

\* the loop over the Trackpoints of one Track that passed the filter
RECURSIVE ScanTrackpoints(_, _, _)
ScanTrackpoints(trackPoints, timestamp, points) ==
    IF trackPoints = <<>> THEN [timestamp |-> timestamp, points |-> points]
    ELSE LET trkpt == Head(trackPoints)
             ts == IF trkpt.Time # Undefined THEN trkpt.Time ELSE timestamp
         IN ScanTrackpoints(Tail(trackPoints), ts,
                Append(points,
                       [lat |-> ParseFloatOpt(trkpt.Position[1].LatitudeDegrees),
                        lng |-> ParseFloatOpt(trkpt.Position[1].LongitudeDegrees),
                        timestamp |-> ts]))

\* [].concat(track.Trackpoint ?? []).filter(it => it.Position)
WithPosition(track) == SelectSeq(track, LAMBDA it : it.Position # Undefined)

\* the loop over the Tracks of one Lap
RECURSIVE ScanLapTracks(_, _, _, _)
ScanLapTracks(lapTracks, name, sport, parsedTracks) ==
    IF lapTracks = <<>> THEN parsedTracks
    ELSE LET t == ScanTrackpoints(WithPosition(Head(lapTracks)), Undefined, <<>>)
         IN ScanLapTracks(Tail(lapTracks), name, sport,
                IF KeepTrack(t.points)
                THEN Append(parsedTracks,
                            [timestamp |-> t.timestamp, points |-> t.points,
                             name |-> name, sport |-> sport])
                ELSE parsedTracks)

\* the loop over the Laps of one Activity; a Lap without Track is skipped
RECURSIVE ScanLaps(_, _, _, _)
ScanLaps(laps, name, sport, parsedTracks) ==
    IF laps = <<>> THEN parsedTracks
    ELSE ScanLaps(Tail(laps), name, sport,
                  ScanLapTracks(Head(laps).Track, name, sport, parsedTracks))

\* act.$.Sport, replaced by act.Training?.Plan.Name when it is 'Other':
\* reading Name of a missing Plan throws
ActivitySport(act) ==
    IF act.Sport # Text("other", "capital") THEN Returned(<<act.Sport>>)
    ELSE IF act.Training = Undefined THEN Returned(Undefined)
    ELSE IF act.Training[1].Plan = Undefined THEN Thrown
    ELSE Returned(act.Training[1].Plan[1].Name)

\* the loop over tcx.Activities.Activity
RECURSIVE ScanActivities(_, _, _)
ScanActivities(activities, name, parsedTracks) ==
    IF activities = <<>> THEN Returned(parsedTracks)
    ELSE LET act == Head(activities)
             declared == ActivitySport(act)
             sport == IF declared.threw THEN Thrown
                      ELSE GetSport(declared.value, name)
         IN IF sport.threw THEN Thrown
            ELSE ScanActivities(Tail(activities), name,
                     ScanLaps(act.Lap, name, sport.value, parsedTracks))

\* extractTCXTracks(tcx, name)
ExtractTCXTracks(tcx, name) ==
    IF tcx.Activities = Undefined THEN Thrown
    ELSE ScanActivities(tcx.Activities[1].Activity, name, <<>>)

\* -------------------------------------------------------- extractFITTracks
\* a number used as a condition: undefined and 0 are falsy
Truthy(v) == v # Undefined /\ v[1] # 0

\* the loop over fit.records
RECURSIVE ScanRecords(_, _, _)
ScanRecords(records, timestamp, points) ==
    IF records = <<>> THEN [timestamp |-> timestamp, points |-> points]
    ELSE LET record == Head(records)
         IN ScanRecords(Tail(records),
                IF record.timestamp # Undefined THEN record.timestamp
                ELSE timestamp,
                IF Truthy(record.position_lat) /\ Truthy(record.position_long)
                THEN Append(points, [lat |-> Num(record.position_lat[1]),
                                     lng |-> Num(record.position_long[1]),
                                     timestamp |-> record.timestamp])
                ELSE points)

\* fit.sports[0]?.sport || null, 'cycling' for a Zwift file without sport;
\* fit.file_ids[0].manufacturer throws when there is no file_id
FitSport(fit) ==
    LET declared == IF fit.sports = <<>> THEN Undefined ELSE fit.sports[1].sport
    IN IF ~Falsy(declared) THEN Returned(declared)
       ELSE IF fit.file_ids = <<>> THEN Thrown
       ELSE IF fit.file_ids[1].manufacturer = "zwift"
       THEN Returned(<<Text("cycling", "lower")>>)
       ELSE Returned(Undefined)

\* extractFITTracks(fit, name)
ExtractFITTracks(fit, name) ==
    IF fit.records = Undefined \/ fit.records[1] = <<>> THEN Thrown
    ELSE LET sport == FitSport(fit)
             r == ScanRecords(fit.records[1], Undefined, <<>>)
         IN IF sport.threw THEN Thrown
            ELSE Returned(IF KeepTrack(r.points)
                          THEN <<[timestamp |-> r.timestamp, points |-> r.points,
                                  name |-> name, sport |-> sport.value]>>
                          ELSE <<>>)

\* ------------------------------------------------------- extractJSONTracks
\* a coordinate copied as it is: a number, or undefined when it is missing
Missing == [k |-> "undefined", v |-> 0]

Copied(v) == IF v = Undefined THEN Missing ELSE Num(v[1])

\* exercise.samples.recordedRoute.map(...)
RoutePoints(recordedRoute) ==
    [i \in 1..Len(recordedRoute) |->
        [lat |-> Copied(recordedRoute[i].latitude),
         lng |-> Copied(recordedRoute[i].longitude),
         timestamp |-> recordedRoute[i].dateTime]]

\* the loop over json.exercises; an exercise without recordedRoute is skipped
RECURSIVE ScanExercises(_, _, _)
ScanExercises(exercises, name, parsedTracks) ==
    IF exercises = <<>> THEN Returned(parsedTracks)
    ELSE LET exercise == Head(exercises)
         IN IF exercise.recordedRoute = Undefined
            THEN ScanExercises(Tail(exercises), name, parsedTracks)
            ELSE LET points == RoutePoints(exercise.recordedRoute[1])
                     sport == GetSport(exercise.sport, name)
                 IN IF sport.threw THEN Thrown
                    ELSE ScanExercises(Tail(exercises), name,
                             IF KeepTrack(points)
                             THEN Append(parsedTracks,
                                         [timestamp |-> exercise.startTime,
                                          points |-> points, name |-> name,
                                          sport |-> sport.value])
                             ELSE parsedTracks)

\* extractJSONTracks(json, name); iterating a missing exercises list throws
ExtractJSONTracks(json, name) ==
    IF json.exercises = Undefined THEN Thrown
    ELSE ScanExercises(json.exercises[1], name, <<>>)

\* ------------------------------------------------------------ extractTracks
\* reject(new Error('Invalid file type.'))
InvalidFileType == [threw |-> TRUE, value |-> <<"Invalid file type.">>]

\* throw `Unsupported file format: ${format}`
UnsupportedFormat == [threw |-> TRUE, value |-> <<"Unsupported file format">>]

\* faulty variant: only gpx takes the XML branch
XmlFormats_GpxOnly == {Text("gpx", "lower")}

\* case 'gpx': case 'tcx': the extensions that share the XML branch
XmlFormats == {Text("gpx", "lower"), Text("tcx", "lower")}

\* extractTracks(name, contents): the promise resolves (Returned) or rejects
\* (Thrown, or the error the code itself raises)
ExtractTracks(f) ==
    LET format == ToLowerCase(f.ext)
    IN IF format \in XmlFormats
       THEN IF f.contents.root = "gpx"
            THEN ExtractGPXTracks(f.contents.doc)
            ELSE IF f.contents.root = "TrainingCenterDatabase"
            THEN ExtractTCXTracks(f.contents.doc, f.name)
            ELSE InvalidFileType
       ELSE IF format = Text("fit", "lower")
       THEN IF f.contents.err THEN Thrown
            ELSE ExtractFITTracks(f.contents.doc, f.name)
       ELSE IF format = Text("json", "lower")
       THEN IF f.contents.err THEN Thrown
            ELSE ExtractJSONTracks(f.contents.doc, f.name)
       ELSE UnsupportedFormat

\* extractedTracks.reduce((ts, t) => { ts.points = ts.points.concat(t.points);
\* return ts; }): the first track, with the points of all of them
RECURSIVE ConcatPoints(_)
ConcatPoints(extractedTracks) ==
    IF extractedTracks = <<>> THEN <<>>
    ELSE Head(extractedTracks).points \o ConcatPoints(Tail(extractedTracks))

Reduce(extractedTracks) ==
    [extractedTracks[1] EXCEPT !.points = ConcatPoints(extractedTracks)]

\* ------------------------------------------------------------ dropped files
\* the sequences over S of length up to n
SeqsUpTo(S, n) == UNION {[1..k -> S] : k \in 0..n}

\* the concatenation of a sequence of sequences
RECURSIVE Flatten(_)
Flatten(seqs) == IF seqs = <<>> THEN <<>> ELSE Head(seqs) \o Flatten(Tail(seqs))

\* trkpt elements: complete with a time, complete without, without lon, with
\* a latitude that is not a number
TrkptKinds ==
    {[lat |-> <<"1">>, lon |-> <<"1">>, time |-> <<1>>],
     [lat |-> <<"2">>, lon |-> <<"2">>, time |-> Undefined],
     [lat |-> <<"1">>, lon |-> Undefined, time |-> <<2>>],
     [lat |-> <<"x">>, lon |-> <<"1">>, time |-> Undefined]}

\* <name> of a trk: absent, a text, a text the XML decoder turned into a number
TrkNames == {Undefined, <<Name("", {"Ride"})>>, <<NumberName>>}

\* the trkseg elements of one trk: up to MaxSegs segments (empty ones
\* included) holding up to MaxPts trkpt elements together
TrkSegs ==
    {segs \in SeqsUpTo(SeqsUpTo(TrkptKinds, MaxPts), MaxSegs) :
        Len(Flatten(segs)) <= MaxPts}

Trks == [name : TrkNames, trkseg : TrkSegs]

\* rtept elements: complete, with a latitude that is not a number, without
\* any attribute
RteptKinds ==
    {[lat |-> <<"1">>, lon |-> <<"2">>, time |-> Undefined],
     [lat |-> <<"x">>, lon |-> <<"1">>, time |-> Undefined],
     [lat |-> Undefined, lon |-> Undefined, time |-> Undefined]}

Rtes == [name : {Undefined}, rtept : SeqsUpTo(RteptKinds, MaxPts)]

\* the point elements (trkpt and rtept) of a GPX document
PointElements(gpx) ==
    Flatten([i \in 1..Len(gpx.trk) |-> Flatten(gpx.trk[i].trkseg)])
        \o Flatten([i \in 1..Len(gpx.rte) |-> gpx.rte[i].rtept])

\* documents of up to one trk and one rte with up to MaxPts point elements
GpxDocs ==
    {gpx \in [trk : SeqsUpTo(Trks, 1), rte : SeqsUpTo(Rtes, 1)] :
        Len(PointElements(gpx)) <= MaxPts}

\* Trackpoint elements of a TCX Track
TrackpointKinds ==
    {[Position |-> <<[LatitudeDegrees |-> <<"1">>,
                      LongitudeDegrees |-> <<"1">>]>>, Time |-> <<1>>],
     [Position |-> Undefined, Time |-> <<2>>],
     [Position |-> <<[LatitudeDegrees |-> <<"x">>,
                      LongitudeDegrees |-> <<"1">>]>>, Time |-> Undefined],
     [Position |-> <<[LatitudeDegrees |-> <<"2">>,
                      LongitudeDegrees |-> Undefined]>>, Time |-> <<2>>]}

Laps == [Track : SeqsUpTo(SeqsUpTo(TrackpointKinds, MaxPts), 1)]

\* the Sport attribute of an Activity and its Training element
ActivityKinds ==
    {[Sport |-> Text("running", "capital"), Training |-> Undefined],
     [Sport |-> Text("biking", "capital"), Training |-> Undefined],
     [Sport |-> Text("other", "capital"), Training |-> Undefined],
     [Sport |-> Text("other", "capital"), Training |-> <<[Plan |-> Undefined]>>],
     [Sport |-> Text("other", "capital"),
      Training |-> <<[Plan |-> <<[Name |-> Undefined]>>]>>],
     [Sport |-> Text("other", "capital"),
      Training |-> <<[Plan |-> <<[Name |-> <<Text("swimming", "capital")>>]>>]>>],
     [Sport |-> Text("other", "capital"),
      Training |-> <<[Plan |-> <<[Name |-> <<Text("walking", "upper")>>]>>]>>],
     [Sport |-> Text("other", "capital"),
      Training |-> <<[Plan |-> <<[Name |-> <<NumberValue>>]>>]>>]}

Activities ==
    {[Sport |-> k.Sport, Training |-> k.Training, Lap |-> l] :
        k \in ActivityKinds, l \in SeqsUpTo(Laps, 1)}

TcxDocs ==
    {[Activities |-> Undefined]} \cup
    {[Activities |-> <<[Activity |-> a]>>] : a \in SeqsUpTo(Activities, 1)}

\* records of a decoded FIT file
RecordKinds ==
    {[position_lat |-> <<1>>, position_long |-> <<1>>, timestamp |-> <<1>>],
     [position_lat |-> <<0>>, position_long |-> <<1>>, timestamp |-> <<2>>],
     [position_lat |-> Undefined, position_long |-> Undefined,
      timestamp |-> <<3>>],
     [position_lat |-> <<2>>, position_long |-> <<2>>, timestamp |-> Undefined]}

FitDocs ==
    [records : {Undefined} \cup {<<r>> : r \in SeqsUpTo(RecordKinds, MaxPts)},
     sports : {<<>>, <<[sport |-> <<Text("cycling", "lower")>>]>>,
               <<[sport |-> <<Text("swimming", "lower")>>]>>},
     file_ids : {<<>>, <<[manufacturer |-> "zwift"]>>,
                 <<[manufacturer |-> "garmin"]>>}]

\* samples of the recordedRoute of an exercise
RoutePointKinds ==
    {[latitude |-> <<1>>, longitude |-> <<1>>, dateTime |-> <<1>>],
     [latitude |-> Undefined, longitude |-> <<2>>, dateTime |-> Undefined]}

Exercises ==
    [recordedRoute : {Undefined} \cup
                     {<<r>> : r \in SeqsUpTo(RoutePointKinds, MaxPts)},
     startTime : {<<1>>},
     sport : {Undefined, <<Text("running", "upper")>>,
              <<Text("swimming", "upper")>>, <<NumberValue>>}]

JsonDocs ==
    {[exercises |-> Undefined]} \cup
    {[exercises |-> <<e>>] : e \in SeqsUpTo(Exercises, 1)}

\* a file: its name (without the extension), its extension and what the
\* decoder (XML, FIT or JSON) makes of its bytes
File(name, ext, root, err, doc) ==
    [name |-> name, ext |-> ext,
     contents |-> [root |-> root, err |-> err, doc |-> doc]]

Files ==
    {File(Untitled, Text("gpx", "lower"), "gpx", FALSE, d) : d \in GpxDocs}
    \cup {File(n, Text("tcx", "lower"), "TrainingCenterDatabase", FALSE, d) :
             n \in {Untitled, Name("Walking", {})}, d \in TcxDocs}
    \cup {File(Untitled, Text("fit", "lower"), "", FALSE, d) : d \in FitDocs}
    \cup {File(Untitled, Text("json", "lower"), "", FALSE, d) : d \in JsonDocs}
    \cup {File(Untitled, Text("fit", "lower"), "", TRUE, <<>>),
          File(Untitled, Text("json", "upper"), "", TRUE, <<>>),
          File(Untitled, Text("txt", "lower"), "", FALSE, <<>>)}
    \cup {File(Untitled, Text(e, c), "other", FALSE, <<>>) :
             e \in {"gpx", "tcx"}, c \in {"lower", "capital", "upper"}}

\* ---------------------------------------------------------- handleTrackFile
\* const extractedTracks = await extractTracks(file, contents)
ExtractFile ==
    /\ parsePc = "idle"
    /\ \E f \in Files :
          /\ file' = <<f>>
          /\ parsed' = ExtractTracks(f)
    /\ parsePc' = "extracted"
    /\ UNCHANGED <<added, playbackVars, searchVars, uploadVars>>

\* the rest of handleTrackFile: the extracted tracks are merged into one,
\* which is added to the map; nothing is added when the promise rejected
HandleTrackFile ==
    /\ parsePc = "extracted"
    /\ added' = IF ~parsed.threw /\ Len(parsed.value) > 0
                THEN <<Reduce(parsed.value)>>
                ELSE Undefined
    /\ parsePc' = "handled"
    /\ UNCHANGED <<file, parsed, playbackVars, searchVars, uploadVars>>

ParseNext ==
    \/ ExtractFile
    \/ HandleTrackFile

ParseSpec == Init /\ [][ParseNext]_vars

\* -------------------------------------------------------- handleFileSelect
\* files of a drop, one for each outcome of extractTracks: a list with a
\* track, an empty list, a rejection
TrackFile ==
    File(Untitled, Text("gpx", "lower"), "gpx", FALSE,
         [trk |-> <<[name |-> Undefined,
                     trkseg |-> <<<<[lat |-> <<"1">>, lon |-> <<"1">>,
                                     time |-> <<1>>]>>>>]>>,
          rte |-> <<>>])

NoTrackFile ==
    File(Untitled, Text("fit", "lower"), "", FALSE,
         [records |-> <<<<[position_lat |-> Undefined,
                           position_long |-> Undefined,
                           timestamp |-> <<3>>]>>>>,
          sports |-> <<[sport |-> <<Text("cycling", "lower")>>]>>,
          file_ids |-> <<>>])

MismatchedFile == File(Untitled, Text("tcx", "lower"), "other", FALSE, <<>>)

\* a picture, with or without geolocation data
ImageFile(geo) ==
    File(Untitled, Text("jpg", "lower"), "", FALSE, [geolocation |-> geo])

\* fileFilter(fileInfo): the entries of an archive that unzipSync keeps
FileFilter(fileInfo) ==
    \/ fileInfo.ext \in {Text(e, "lower") : e \in {"fit", "tcx", "gpx", "zip"}}
    \/ /\ fileInfo.ext = Text("json", "lower")
       /\ fileInfo.name.starts = "training-session"

\* unzip(bytes)
Unzip(item) == SelectSeq(item.files, FileFilter)

\* a dropped item: a plain file, a directory with its files, an archive with
\* its entries
Item(kind, files) == [kind |-> kind, files |-> files]

DroppedFiles ==
    {TrackFile, NoTrackFile, MismatchedFile, ImageFile(TRUE), ImageFile(FALSE)}

ZippedFiles == {TrackFile, NoTrackFile, MismatchedFile, ImageFile(TRUE)}

Items ==
    {Item("file", <<f>>) : f \in DroppedFiles}
    \cup {Item("directory", fs) : fs \in SeqsUpTo(DroppedFiles, MaxEntries)}
    \cup {Item("zip", fs) : fs \in SeqsUpTo(ZippedFiles, MaxEntries)}

\* the files of a drop, whatever their nesting
FilesOf(batch) == Flatten([i \in 1..Len(batch) |-> batch[i].files])

\* drops of one to MaxItems items
Batches ==
    {batch \in SeqsUpTo(Items, MaxItems) :
        Len(batch) >= 1 /\ Len(FilesOf(batch)) <= MaxFiles}

\* the outcome of a handler: by how much numLoaded grew, the calls made on
\* the map, whether the handler threw
Outcome(loaded, calls, threw) ==
    [loaded |-> loaded, calls |-> calls, threw |-> threw]

\* handleImage(file)
HandleImage(f, name) ==
    IF ~f.contents.doc.geolocation THEN Outcome(0, <<>>, TRUE)
    ELSE Outcome(1, <<[op |-> "addImage", name |-> name]>>, FALSE)

\* handleTrackFile(file, contents) of a file that is not an archive
HandleTrackFileOf(f, name) ==
    LET extractedTracks == ExtractTracks(f)
    IN IF extractedTracks.threw THEN Outcome(0, <<>>, TRUE)
       ELSE Outcome(1,
                    IF Len(extractedTracks.value) > 0
                    THEN <<[op |-> "addTrack", name |-> name]>>
                    ELSE <<>>,
                    FALSE)

\* modal.addFailure({name: file.name, error: err}) in the catch of handleFile
AddFailure(name) == <<[name |-> name]>>

\* handleFile(file) of a file that is not an archive: what it did and the
\* failure its catch recorded
HandleFile(f, name) ==
    LET o == IF ToLowerCase(f.ext).word \in {"jpg", "jpeg"}
             THEN HandleImage(f, name)
             ELSE HandleTrackFileOf(f, name)
    IN [loaded |-> o.loaded, calls |-> o.calls,
        failures |-> IF o.threw THEN AddFailure(name) ELSE <<>>]

\* modal.addDirectoryEntries(count)
AddDirectoryEntries(count) == numFiles + count - 1

\* the end of a step: the modal counts, the promises of nowSettled settle
\* and, once the promise of every item is settled, the callback of
\* Promise.all(...).then runs map.center() and modal.finished()
Progress(total, nowSettled, loaded, failed, calls) ==
    LET all == settled \cup nowSettled = 1..Len(items) /\ nowSettled # {}
    IN /\ numFiles' = total
       /\ numLoaded' = numLoaded + loaded
       /\ failures' = failures \o failed
       /\ settled' = settled \cup nowSettled
       /\ mapCalls' = mapCalls \o calls \o
                      (IF all THEN <<[op |-> "center", name |-> <<>>]>>
                       ELSE <<>>)
       /\ finished' = IF all
                      THEN <<[numFiles |-> total,
                              numLoaded |-> numLoaded + loaded,
                              failures |-> failures \o failed]>>
                      ELSE finished

\* handleFileSelect(map, evt): the modal is built and every item starts
Drop ==
    /\ items = <<>>
    /\ \E batch \in Batches :
          /\ items' = batch
          /\ handled' = [i \in 1..Len(batch) |-> {}]
          /\ numFiles' = Len(batch)
    /\ opened' = {}
    /\ settled' = {}
    /\ numLoaded' = 0
    /\ failures' = <<>>
    /\ mapCalls' = <<>>
    /\ finished' = Undefined
    /\ UNCHANGED <<playbackVars, searchVars, parseVars>>

\* the reader of a dropped plain file has loaded it: handleFile runs to its
\* end
LoadFile(i) ==
    /\ items[i].kind = "file"
    /\ i \notin settled
    /\ LET o == HandleFile(items[i].files[1], <<i>>)
       IN Progress(numFiles, {i}, o.loaded, o.failures, o.calls)
    /\ handled' = [handled EXCEPT ![i] = {1}]
    /\ UNCHANGED <<items, opened, playbackVars, searchVars, parseVars>>

\* handleDirectory(dir): the entries are read and counted; the promise of an
\* empty directory settles at once
HandleDirectory(i) ==
    /\ items[i].kind = "directory"
    /\ i \notin opened
    /\ opened' = opened \cup {i}
    /\ Progress(AddDirectoryEntries(Len(items[i].files)),
                IF items[i].files = <<>> THEN {i} ELSE {}, 0, <<>>, <<>>)
    /\ UNCHANGED <<items, handled, playbackVars, searchVars, parseVars>>

\* the reader of a file of a directory has loaded it: handleFile runs to its
\* end, and the directory settles with its last file
LoadDirectoryFile(i, j) ==
    /\ items[i].kind = "directory"
    /\ i \in opened
    /\ j \in 1..Len(items[i].files)
    /\ j \notin handled[i]
    /\ handled' = [handled EXCEPT ![i] = @ \cup {j}]
    /\ LET o == HandleFile(items[i].files[j], <<i, j>>)
       IN Progress(numFiles,
                   IF handled[i] \cup {j} = 1..Len(items[i].files)
                   THEN {i} ELSE {},
                   o.loaded, o.failures, o.calls)
    /\ UNCHANGED <<items, opened, playbackVars, searchVars, parseVars>>

\* handleFile(file) of an archive up to handleZip(contents): the entries are
\* unzipped and counted and a timer is set for each; the promise of an
\* archive without entries settles at once
HandleZip(i) ==
    /\ items[i].kind = "zip"
    /\ i \notin opened
    /\ opened' = opened \cup {i}
    /\ Progress(AddDirectoryEntries(Len(Unzip(items[i]))),
                IF Unzip(items[i]) = <<>> THEN {i} ELSE {}, 0, <<>>, <<>>)
    /\ UNCHANGED <<items, handled, playbackVars, searchVars, parseVars>>

\* handleZipEntry(entry): the timer of the next entry fires and
\* handleTrackFile runs to its end. The first entry that throws rejects the
\* Promise.all of handleZip, and the catch of handleFile records a failure
\* under the name of the archive; the last entry resolves it if none threw
HandleZipEntry(i) ==
    /\ items[i].kind = "zip"
    /\ i \in opened
    /\ LET unzipped == Unzip(items[i])
           k == Cardinality(handled[i]) + 1
       IN /\ k <= Len(unzipped)
          /\ handled' = [handled EXCEPT ![i] = @ \cup {k}]
          /\ LET o == HandleTrackFileOf(unzipped[k], <<i, k>>)
                 rejects == o.threw /\ i \notin settled
                 resolves == ~o.threw /\ i \notin settled /\ k = Len(unzipped)
             IN Progress(numFiles,
                         IF rejects \/ resolves THEN {i} ELSE {},
                         o.loaded,
                         IF rejects THEN AddFailure(<<i>>) ELSE <<>>,
                         o.calls)
    /\ UNCHANGED <<items, opened, playbackVars, searchVars, parseVars>>

UploadNext ==
    \/ Drop
    \/ \E i \in 1..Len(items) :
          \/ LoadFile(i)
          \/ HandleDirectory(i)
          \/ \E j \in 1..Len(items[i].files) : LoadDirectoryFile(i, j)
          \/ HandleZip(i)
          \/ HandleZipEntry(i)

UploadSpec == Init /\ [][UploadNext]_vars

\* ------------------------------------------------------- claim vocabulary
FullLine(track) == LatLngs(track.points)

Restored(track) == track.line = FullLine(track) /\ track.marker = Undefined

Timestamped(track) ==
    \A k \in 1..Len(track.points) : track.points[k].timestamp # Undefined

\* the time at which the claims say a track is looked up on a tick of a run
\* in which every track starts at virtual time 0
QueryTime(track, stepTime) == stepTime + track.points[1].timestamp[1]

\* the number of points whose timestamp is not after q: the insertion index
ReachedCount(track, q) ==
    Cardinality({k \in 1..Len(track.points) : track.points[k].timestamp[1] <= q})

ResolvedTick == ev.op = "tick" /\ ev.resolved

\* ------------------------------------------------------------------ claims

\* C1: when a run ends by itself (the step callback finds stepTime not below
\* the upper bound and requests no further frame), every track's displayed
\* line is its full point sequence and no track keeps a marker.
C1_CompletedRunRestoresTracks ==
    (ev.op = "tick" /\ ev.completed) =>
        \A i \in 1..Len(tracks) : Restored(tracks[i])

\* C2: a click on Stop, at any moment of a run, leaves every track's line
\* equal to its point sequence, leaves track.points as it was and leaves no
\* track with a marker.
C2_StopRestoresTracks ==
    [][ev'.op = "stop" =>
          /\ Len(tracks') = Len(tracks)
          /\ \A i \in 1..Len(tracks) :
                /\ tracks'[i].points = tracks[i].points
                /\ tracks'[i].line = LatLngs(tracks[i].points)
                /\ tracks'[i].marker = Undefined]_vars

\* a run was stopped after frames had placed a marker and cut a line
C2_Witness ==
    /\ ev.op = "stop" /\ ev.run > 0 /\ ev.resolved /\ ev.hadMarker
    /\ \A i \in 1..Len(tracks) : Restored(tracks[i])

\* a run was stopped right after its start, before its first frame
C2_StoppedBeforeFirstFrame ==
    ev.op = "stop" /\ ev.run > 0 /\ ~ev.resolved

\* C3: on every tick, a visible track whose query time lies strictly inside
\* its timestamp range (insertion index i, 0 < i < len) has its marker at
\* points[i-1], the last point whose timestamp is not after the query time.
C3_MarkerAtLastReachedPoint ==
    ResolvedTick =>
        \A i \in ev.visibleTracks :
            LET track == tracks[i]
                q == QueryTime(track, ev.stepTime)
                n == ReachedCount(track, q)
            IN (/\ Timestamped(track)
                /\ track.points[1].timestamp[1] < q
                /\ q < track.points[Len(track.points)].timestamp[1])
               => track.marker = <<LatLng(track.points[n])>>

\* C4: on every tick where a track's query time is past its last point, the
\* track has no marker and its displayed line is its complete point sequence.
C4_FinishedTrackFullLine ==
    ResolvedTick =>
        \A i \in ev.visibleTracks :
            LET track == tracks[i]
            IN (/\ Timestamped(track)
                /\ QueryTime(track, ev.stepTime) >
                       track.points[Len(track.points)].timestamp[1])
               => Restored(track)

\* C5: on every tick where no point of a track has been reached yet (every
\* point lies after the track's query time), the track has no marker.
C5_NoMarkerBeforeFirstPoint ==
    ResolvedTick =>
        \A i \in ev.visibleTracks :
            LET track == tracks[i]
            IN (/\ Timestamped(track)
                /\ ReachedCount(track, QueryTime(track, ev.stepTime)) = 0)
               => track.marker = Undefined

\* C6: a play request with no visible track and no image marker requests no
\* frame and leaves the playback control in its 'default' state.
C6_EmptyStartStaysIdle ==
    (ev.op = "play" /\ VisibleTracks = {} /\ imageMarkers = 0) =>
        (callbacks = <<>> /\ btn = "default")

\* C7: at most one run has a pending frame callback; while one is pending the
\* control is in its 'running' state, so that a click is a stop request and
\* never a play request, and the stop cancels exactly that run.
C7_AtMostOneRun ==
    /\ Cardinality(DOMAIN callbacks) <= 1
    /\ callbacks # <<>> =>
          (btn = "running" /\ DOMAIN callbacks = {trackAnimationRequest[1]})

\* a second run is active after the first one was stopped or completed
C7_Witness == runCount = 2 /\ DOMAIN callbacks = {2} /\ ev.op = "tick"

\* the largest own duration of the tracks of a run
RECURSIVE MaxDuration(_)
MaxDuration(S) ==
    LET i == CHOOSE j \in S : TRUE
        d == tracks[i].points[Len(tracks[i].points)].timestamp[1]
                 - tracks[i].points[1].timestamp[1]
    IN IF S = {i} THEN d
       ELSE IF d >= MaxDuration(S \ {i}) THEN d ELSE MaxDuration(S \ {i})

\* a run over timestamped tracks is waiting for a frame, at a positive rate
ActiveTimestampedRun ==
    /\ callbacks # <<>>
    /\ options.playbackRate > 0
    /\ \A id \in DOMAIN callbacks :
          /\ callbacks[id].visibleTracks # {}
          /\ \A i \in callbacks[id].visibleTracks : Timestamped(tracks[i])

\* C8: with frames of advancing timestamps delivered fairly, a run over
\* timestamped tracks at a positive playbackRate ends (no frame is pending
\* and the control is back in 'default'), and it never ends by itself on a
\* tick whose stepTime is still below the upper bound.
C8_RunTerminates ==
    /\ [](ActiveTimestampedRun =>
            <>((callbacks = <<>> /\ btn = "default")
                  \/ options.playbackRate <= 0))
    /\ []((/\ ev.op = "tick" /\ ev.completed /\ ev.visibleTracks # {}
           /\ \A i \in ev.visibleTracks : Timestamped(tracks[i]))
          => ev.stepTime >= MaxDuration(ev.visibleTracks))

\* a run over a timestamped track of positive duration ended by itself after
\* more than one frame
C8_Witness ==
    /\ ev.op = "tick" /\ ev.completed /\ ev.elapsed > 0
    /\ options.playbackRate > 0
    /\ callbacks = <<>> /\ btn = "default"
    /\ ev.visibleTracks # {}
    /\ \A i \in ev.visibleTracks : Timestamped(tracks[i])
    /\ ev.maxBound.v > 0

\* C9: in Simultaneous mode the lower bound is 0, the upper bound is the
\* largest own duration (last minus first timestamp) of the visible tracks,
\* stepTime is the elapsed tick time times playbackRate, and each track is
\* queried at stepTime plus its own first timestamp.
C9_SimultaneousTimeline ==
    (/\ ev.op = "tick" /\ ev.mode = "simultaneous"
     /\ ev.visibleTracks # {}
     /\ \A i \in ev.visibleTracks : Timestamped(tracks[i])) =>
        /\ ev.minBound = 0
        /\ ev.maxBound = Num(MaxDuration(ev.visibleTracks))
        /\ ev.stepTime = ev.elapsed * options.playbackRate
        /\ \A i \in ev.visibleTracks :
              ev.queries[i] = Num(ev.elapsed * options.playbackRate
                                      + tracks[i].points[1].timestamp[1])

\* a tick of a Simultaneous run over two tracks of different durations that
\* start at different times, after time has passed
C9_Witness ==
    /\ ev.op = "tick" /\ ev.mode = "simultaneous" /\ ev.elapsed > 0
    /\ options.playbackRate > 1
    /\ Cardinality(ev.visibleTracks) = 2
    /\ \A i \in ev.visibleTracks : Timestamped(tracks[i])
    /\ \E i, j \in ev.visibleTracks :
          /\ tracks[i].points[1].timestamp # tracks[j].points[1].timestamp
          /\ ev.maxBound # Duration(tracks[j])
          /\ ev.maxBound = Duration(tracks[i])
          /\ ev.maxBound.v > 0

\* the timestamp ranges of two tracks do not overlap
Disjoint(a, b) ==
    \/ a.points[Len(a.points)].timestamp[1] < b.points[1].timestamp[1]
    \/ b.points[Len(b.points)].timestamp[1] < a.points[1].timestamp[1]

\* C10: in a run started in Synchronized mode, two tracks whose timestamp
\* ranges do not overlap never both have a marker on the same tick.
C10_SynchronizedDisjointTracks ==
    (ResolvedTick /\ ev.mode = "synchronized") =>
        \A i, j \in ev.visibleTracks :
            (/\ Timestamped(tracks[i]) /\ Timestamped(tracks[j])
             /\ Disjoint(tracks[i], tracks[j]))
            => ~(tracks[i].marker # Undefined /\ tracks[j].marker # Undefined)

\* C11: in a run started in Latest mode only the most recently added track is
\* animated; every other track never gets a marker and its displayed line is
\* never changed (shown for the first run, before which every line is
\* complete).
C11_LatestOnlyAnimatesLastTrack ==
    (ResolvedTick /\ ev.mode = "latest" /\ ev.run = 1) =>
        \A i \in 1..Len(tracks) - 1 : Restored(tracks[i])

\* a repeated frame was delivered while a track carried a marker
C12_Witness ==
    /\ ev.op = "tick" /\ ~ev.resolved
    /\ \E i \in ev.visibleTracks :
          tracks[i].marker # Undefined /\ Len(tracks[i].line) > 0

\* C12: a tick whose timestamp equals that of the previously processed tick
\* of the same run creates, moves and removes no marker and appends no point
\* to any line.
C12_RepeatedTickResolvesNothing ==
    [][(/\ ev'.op = "tick"
        /\ callbacks[ev'.run].start # Undefined
        /\ clock' = clock)
       => tracks' = tracks]_vars

\* the index (from 1) of the point a track's marker is on; past the end once
\* the track has no point left to resolve
ResolvedIndex(track) ==
    IF track.marker = Undefined THEN Len(track.points) + 1
    ELSE track.marker[1][1]

\* the first index a run can resolve: the first point later than the track's
\* own start
FirstIndex(track) == ReachedCount(track, track.points[1].timestamp[1]) + 1

HasMatch == \E i \in 1..Len(array) : Comparator(array[i], target) = 0

\* C14: for a sorted array and any target, search returns a non-negative
\* index r exactly when some element compares equal to the target, and then
\* comparator(array[r], target) is 0.
C14_SearchFindsMatch ==
    searchPc = "done" =>
        LET r == result[1]
        IN /\ (r >= 0) <=> HasMatch
           /\ r >= 0 => (r < Len(array) /\ Comparator(At(array, r), target) = 0)

\* a match was found past the first element of an array holding the target
\* more than once
C14_Witness ==
    /\ searchPc = "done" /\ result[1] >= 1
    /\ Cardinality({i \in 1..Len(array) : array[i] = target}) >= 2
    /\ \E i \in 1..Len(array) : array[i] # target

\* the insertion index: the number of elements comparing below the target
InsertionIndex ==
    Cardinality({i \in 1..Len(array) : Comparator(array[i], target) < 0})

\* the reference: a linear scan from index i (counted from 0)
RECURSIVE LinearScan(_)
LinearScan(i) ==
    IF i >= Len(array) THEN -i - 1
    ELSE IF Comparator(At(array, i), target) = 0 THEN i
    ELSE IF Comparator(At(array, i), target) > 0 THEN -i - 1
    ELSE LinearScan(i + 1)

\* C15: for a sorted array (the empty one included) and a target that no
\* element matches, search returns ~k for the insertion index k: -1 for the
\* empty array and for a target below every element, ~n for a target above
\* all n elements; the result is that of a linear scan.
C15_SearchMissComplement ==
    (searchPc = "done" /\ ~HasMatch) =>
        LET r == result[1]
        IN /\ r = -InsertionIndex - 1
           /\ r = LinearScan(0)
           /\ array = <<>> => r = -1
           /\ (\A i \in 1..Len(array) : target < array[i]) => r = -1
           /\ (\A i \in 1..Len(array) : target > array[i])
                 => r = -Len(array) - 1

\* a miss strictly inside an array of several elements
C15_Witness ==
    /\ searchPc = "done" /\ ~HasMatch
    /\ Len(array) >= 3
    /\ 0 < InsertionIndex /\ InsertionIndex < Len(array)
    /\ result[1] = -InsertionIndex - 1

\* misses at both ends and on the empty array
C15_WitnessEmpty == searchPc = "done" /\ array = <<>> /\ result = <<-1>>

C15_WitnessAbove ==
    /\ searchPc = "done" /\ Len(array) >= 3
    /\ InsertionIndex = Len(array) /\ result = <<-Len(array) - 1>>

\* extractTracks has resolved with a track list
Extracted == parsePc \in {"extracted", "handled"} /\ ~parsed.threw

\* the closed set of sports
SportSet == {Text(w, "lower") : w \in {"cycling", "running", "walking", "other"}}

\* C16: the sport of every track produced by extractTracks is one of cycling,
\* running, walking and other ('biking' in any letter case becomes cycling,
\* a sport of the set passes through, any other declared string becomes
\* other).
C16_SportInClosedSet ==
    Extracted =>
        \A i \in 1..Len(parsed.value) :
            /\ parsed.value[i].sport # Undefined
            /\ parsed.value[i].sport[1] \in SportSet

\* the arguments of the calls of getSport that the extraction of a file makes
\* (up to the first call that throws)
SportCalls(f) ==
    LET format == ToLowerCase(f.ext).word
        doc == f.contents.doc
    IN IF format \in {"gpx", "tcx"} /\ f.contents.root = "gpx"
       THEN {<<Undefined, NameOf(doc.trk[i])>> : i \in 1..Len(doc.trk)}
       ELSE IF format \in {"gpx", "tcx"}
               /\ f.contents.root = "TrainingCenterDatabase"
               /\ doc.Activities # Undefined
       THEN {<<ActivitySport(doc.Activities[1].Activity[i]).value, f.name>> :
                i \in {j \in 1..Len(doc.Activities[1].Activity) :
                         ~ActivitySport(doc.Activities[1].Activity[j]).threw}}
       ELSE IF format = "json" /\ ~f.contents.err /\ doc.exercises # Undefined
       THEN {<<doc.exercises[1][i].sport, f.name>> :
                i \in {j \in 1..Len(doc.exercises[1]) :
                         doc.exercises[1][j].recordedRoute # Undefined}}
       ELSE {}

\* C17: getSport returns a sport, without raising an error, for every
\* declared sport (present or absent) and every name a parser passes to it,
\* an absent or non-text track name included.
C17_GetSportTotal ==
    parsePc = "extracted" =>
        \A call \in SportCalls(file[1]) : ~GetSport(call[1], call[2]).threw

\* C18: every track in the list returned by extractTracks, for every format
\* and every input, has at least one point; so has the track handed to the
\* map.
C18_TracksHavePoints ==
    /\ Extracted =>
          \A i \in 1..Len(parsed.value) : Len(parsed.value[i].points) >= 1
    /\ (parsePc = "handled" /\ added # Undefined) =>
          Len(added[1].points) >= 1

\* a GPX track of two segments, one of which yields no point, gave one track
C18_Witness ==
    /\ Extracted /\ parsePc = "handled"
    /\ file[1].contents.root = "gpx"
    /\ Len(file[1].contents.doc.trk) = 1
    /\ Len(file[1].contents.doc.trk[1].trkseg) = 2
    /\ file[1].contents.doc.rte = <<>>
    /\ Len(parsed.value) = 1
    /\ added # Undefined

\* the trkpt elements of a GPX document, in document order
AllTrkpts(gpx) ==
    Flatten([i \in 1..Len(gpx.trk) |-> Flatten(gpx.trk[i].trkseg)])

\* the trkpt carries both a lat and a lon attribute
Complete(trkpt) == trkpt.lat # Undefined /\ trkpt.lon # Undefined

\* the positions the complete trkpt elements of a document stand for
CompletePositions(gpx) ==
    LET complete == SelectSeq(AllTrkpts(gpx), Complete)
    IN [i \in 1..Len(complete) |->
           <<ParseFloat(complete[i].lat[1]), ParseFloat(complete[i].lon[1])>>]

PositionsOf(points) == [i \in 1..Len(points) |-> <<points[i].lat, points[i].lng>>]

\* a GPX document went through handleTrackFile
GpxHandled == parsePc = "handled" /\ file[1].contents.root = "gpx"

\* C19: for a GPX input in which N trkpt elements carry both lat and lon, the
\* produced track has exactly N points, in document order; a trkpt lacking
\* lat or lon contributes no point and is not fatal.
C19_GpxPointCount ==
    GpxHandled =>
        IF added = Undefined
        THEN CompletePositions(file[1].contents.doc) = <<>>
        ELSE PositionsOf(added[1].points)
                 = CompletePositions(file[1].contents.doc)

\* what holds of C19: a document without routes, when the extraction does
\* not fail
C19_HoldsWithoutRoutes ==
    (GpxHandled /\ ~parsed.threw /\ file[1].contents.doc.rte = <<>>) =>
        IF added = Undefined
        THEN CompletePositions(file[1].contents.doc) = <<>>
        ELSE PositionsOf(added[1].points)
                 = CompletePositions(file[1].contents.doc)

\* C20: no point of any track returned by extractTracks has a NaN latitude or
\* longitude.
C20_NoNaNCoordinates ==
    Extracted =>
        \A i \in 1..Len(parsed.value) :
            \A k \in 1..Len(parsed.value[i].points) :
                /\ parsed.value[i].points[k].lat # NaN
                /\ parsed.value[i].points[k].lng # NaN

\* the timestamp of the first point of a track that has one, undefined when
\* no point has one
RECURSIVE FirstTimestamp(_)
FirstTimestamp(points) ==
    IF points = <<>> THEN Undefined
    ELSE IF Head(points).timestamp # Undefined THEN Head(points).timestamp
    ELSE FirstTimestamp(Tail(points))

\* extractTracks has resolved for a GPX or a TCX document
XmlExtracted ==
    Extracted /\ file[1].contents.root \in {"gpx", "TrainingCenterDatabase"}

\* C21: the timestamp of every track produced from GPX or TCX input is the
\* first timestamp observed among the track's points, not a later one, and a
\* track without any timestamped point has no timestamp.
C21_TimestampIsFirstObserved ==
    XmlExtracted =>
        \A i \in 1..Len(parsed.value) :
            parsed.value[i].timestamp = FirstTimestamp(parsed.value[i].points)

\* extractTracks has settled for a FIT file that the decoder accepted
FitDecoded ==
    /\ parsePc \in {"extracted", "handled"}
    /\ ToLowerCase(file[1].ext).word = "fit"
    /\ ~file[1].contents.err

\* the decoded record list is absent or empty
NoRecords(fit) == fit.records = Undefined \/ fit.records[1] = <<>>

\* the record carries both a latitude and a longitude
HasPosition(record) ==
    record.position_lat # Undefined /\ record.position_long # Undefined

\* C22: for FIT input, extraction fails exactly when the decoded record list
\* is absent or empty; with a non-empty list in which no record carries both
\* position_lat and position_long it returns an empty track list and raises
\* no error.
C22_FitFailsOnlyWithoutRecords ==
    FitDecoded =>
        LET fit == file[1].contents.doc
        IN /\ parsed.threw <=> NoRecords(fit)
           /\ (~NoRecords(fit)
                  /\ \A i \in 1..Len(fit.records[1]) :
                         ~HasPosition(fit.records[1][i]))
              => parsed = Returned(<<>>)

\* what holds of C22: a file that declares a sport or has a file_id
C22_HoldsWithFileId ==
    (FitDecoded /\ ~FitSport(file[1].contents.doc).threw) =>
        LET fit == file[1].contents.doc
        IN /\ parsed.threw <=> NoRecords(fit)
           /\ (~NoRecords(fit)
                  /\ \A i \in 1..Len(fit.records[1]) :
                         ~HasPosition(fit.records[1][i]))
              => parsed = Returned(<<>>)

\* the positions of the records that carry both a latitude and a longitude,
\* in record order
RecordPositions(fit) ==
    LET located == SelectSeq(fit.records[1], HasPosition)
    IN [i \in 1..Len(located) |->
           <<Num(located[i].position_lat[1]), Num(located[i].position_long[1])>>]

\* the positions of the points of the track list extractTracks produced
ProducedPositions ==
    IF parsed.value = <<>> THEN <<>>
    ELSE PositionsOf(parsed.value[1].points)

\* C23: for FIT input with a non-empty record list, the points of the produced
\* track are exactly the records that carry both a latitude and a longitude,
\* whatever their values (zero included), in record order; every other record
\* contributes no point.
C23_FitPointsAreLocatedRecords ==
    (FitDecoded /\ ~parsed.threw) =>
        /\ Len(parsed.value) <= 1
        /\ ProducedPositions = RecordPositions(file[1].contents.doc)

\* what holds of C23: no coordinate of the file is 0 and the extraction does
\* not fail
C23_HoldsWithoutZero ==
    (/\ FitDecoded /\ ~parsed.threw
     /\ \A i \in 1..Len(file[1].contents.doc.records[1]) :
           LET record == file[1].contents.doc.records[1][i]
           IN HasPosition(record) =>
                 Truthy(record.position_lat) /\ Truthy(record.position_long))
    => ProducedPositions = RecordPositions(file[1].contents.doc)

\* extractTracks has settled for a file named .gpx or .tcx, in any letter
\* case, whose XML root is neither gpx nor TrainingCenterDatabase
XmlMismatch ==
    /\ parsePc \in {"extracted", "handled"}
    /\ file[1].ext.word \in {"gpx", "tcx"}
    /\ file[1].contents.root \notin {"gpx", "TrainingCenterDatabase"}

\* C25: for every input whose filename ends in .gpx or .tcx, in any letter
\* case, and whose XML root is neither gpx nor TrainingCenterDatabase,
\* extractTracks fails with the format-mismatch error and no track list,
\* whichever of the two extensions was used; no track reaches the map.
C25_MismatchedRootRejected ==
    XmlMismatch =>
        /\ parsed = InvalidFileType
        /\ parsePc = "handled" => added = Undefined

\* a file named .TCX with a foreign root went through handleTrackFile
C25_Witness ==
    /\ XmlMismatch /\ parsePc = "handled"
    /\ file[1].ext = Text("tcx", "upper")
    /\ parsed.threw

\* the files of item i that reach a handler: the file itself, the files of
\* the directory, the entries of the archive that pass the filter
Reaching(i) == IF items[i].kind = "zip" THEN Unzip(items[i]) ELSE items[i].files

\* the names of the files of the drop that reach a handler
FileNames ==
    {<<i>> : i \in {n \in 1..Len(items) : items[n].kind = "file"}}
    \cup UNION {{<<i, j>> : j \in 1..Len(Reaching(i))} :
                   i \in {n \in 1..Len(items) : items[n].kind # "file"}}

FileAt(name) == Reaching(name[1])[IF Len(name) = 1 THEN 1 ELSE name[2]]

\* what handling the file does when nothing else interferes
Handling(name) == HandleFile(FileAt(name), name)

\* the number of recorded failures that carry the name
Recorded(name) ==
    Cardinality({n \in 1..Len(failures) : failures[n].name = name})

\* the drop has run to its end: every directory is read, every archive is
\* unzipped and every file has been handled
Quiescent ==
    /\ items # <<>>
    /\ \A i \in 1..Len(items) :
          /\ items[i].kind # "file" => i \in opened
          /\ handled[i] = 1..Len(Reaching(i))

\* C24: in a drop of plain files, directories and archives, the failure of
\* one file is recorded for that file only and does not abort its siblings:
\* every file that yields a track has it added to the map, and the drop
\* finishes (map.center and modal.finished are called).
C24_FailureStaysWithItsFile ==
    Quiescent =>
        /\ \A name \in FileNames :
              /\ Recorded(name) = IF Handling(name).failures # <<>> THEN 1 ELSE 0
              /\ \A n \in 1..Len(Handling(name).calls) :
                    \E m \in 1..Len(mapCalls) :
                        mapCalls[m] = Handling(name).calls[n]
        /\ \A n \in 1..Len(failures) : failures[n].name \in FileNames
        /\ finished # Undefined
        /\ \E m \in 1..Len(mapCalls) : mapCalls[m].op = "center"

\* no entry of an archive of the drop fails
NoFailingEntry ==
    \A i \in 1..Len(items) :
        items[i].kind = "zip" =>
            \A k \in 1..Len(Reaching(i)) : Handling(<<i, k>>).failures = <<>>

\* what holds of C24: a drop in which no entry of an archive fails
C24_HoldsOutsideArchives ==
    (Quiescent /\ NoFailingEntry) =>
        /\ \A name \in FileNames :
              /\ Recorded(name) = IF Handling(name).failures # <<>> THEN 1 ELSE 0
              /\ \A n \in 1..Len(Handling(name).calls) :
                    \E m \in 1..Len(mapCalls) :
                        mapCalls[m] = Handling(name).calls[n]
        /\ \A n \in 1..Len(failures) : failures[n].name \in FileNames
        /\ finished # Undefined
        /\ \E m \in 1..Len(mapCalls) : mapCalls[m].op = "center"

\* C26: when modal.finished is called at the end of a drop, the files counted
\* as loaded and the recorded failures add up to the file count of the modal
\* (numLoaded + failures.length = numFiles), for every mix of plain files,
\* directories (empty ones included) and archives and every outcome per file,
\* several failing entries of one archive included.
C26_CountsAddUp ==
    finished # Undefined =>
        finished[1].numLoaded + Len(finished[1].failures) = finished[1].numFiles

\* what holds of C26: a drop in which no entry of an archive fails
C26_HoldsOutsideArchives ==
    (finished # Undefined /\ NoFailingEntry) =>
        finished[1].numLoaded + Len(finished[1].failures) = finished[1].numFiles
====
